---- MODULE Spec2Model ----
(***************************************************************************)
(* Model of api-put-object-streaming.go (minio-go): the streaming          *)
(* multipart upload engine.                                                *)
(*                                                                         *)
(*   putObjectMultipartStream            entry point, fallback coordinator *)
(*   putObjectMultipartStreamFromReadAt  concurrent uploader (goroutines)  *)
(*   putObjectMultipartStreamNoChecksum  sequential uploader               *)
(*   putObjectNoChecksum / putObjectDo   single-shot uploader              *)
(*                                                                         *)
(* Sizes are scaled: the protocol limits (minimum part size, maximum part  *)
(* count, object size ceilings) are small numbers that keep their order.   *)
(* The goroutines of the concurrent uploader are interleaved at the level  *)
(* of their accesses to the variables they share: the two channels and the *)
(* captured variables partSize and err.                                    *)
(***************************************************************************)
EXTENDS Integers, Sequences, FiniteSets, TLC

\* ---- scaled protocol limits and input bounds ----
MinPartSize == 2
MaxPartsCount == 2
MaxMultipartPutObjectSize == 4
MaxSinglePutObjectSize == 3
MaxSize == 5
MaxData == 4

\* number of upload goroutines started at line 150
totalWorkers == 3

Workers == 1..totalWorkers
PartNums == 1..(MaxMultipartPutObjectSize + 1)

Min(a, b) == IF a < b THEN a ELSE b
Max(a, b) == IF a > b THEN a ELSE b
CeilDiv(a, b) == (a + b - 1) \div b

\* ---- error values ----
\* code "nil" is Go's nil error; origin tells which call produced the error
\* (0: not a part upload, p: the upload of part p).
Err(c, o) == [code |-> c, origin |-> o]
NoErr == Err("nil", 0)
FaultCodes == {"AccessDenied", "Transfer"}

\* ---- ObjectPart values and the nil *ObjectPart ----
ObjectPart(num, sz) == [isNil |-> FALSE, PartNumber |-> num, Size |-> sz]
ZeroObjectPart == ObjectPart(0, 0)
NilPart == [isNil |-> TRUE, PartNumber |-> 0, Size |-> 0]

\* ---- PartPlanner: optimalPartInfo(size) ----
PlanObjectSize(sz) == IF sz < 0 THEN MaxMultipartPutObjectSize ELSE sz
PlanFails(sz) == PlanObjectSize(sz) > MaxMultipartPutObjectSize
PlanPartSize(sz) == Max(MinPartSize, CeilDiv(PlanObjectSize(sz), MaxPartsCount))
PlanTotalParts(sz) == Max(1, CeilDiv(PlanObjectSize(sz), PlanPartSize(sz)))
PlanLastPartSize(sz) == PlanObjectSize(sz) - (PlanTotalParts(sz) - 1) * PlanPartSize(sz)

\* ---- the source: bytes a bounded view [off, off+len) of n bytes can deliver
\* (none at a negative offset, where ReadAt fails) ----
Avail(len, off, n) == IF off < 0 THEN 0 ELSE Max(0, Min(len, n - off))

\* no error is taken for "multipart unsupported"
NeverUnsupported(e) == FALSE

\* line 66: ToErrorResponse(err).Code == "AccessDenied" && Message contains "Access Denied"
IsMultipartUnsupported(e) == e.code = "AccessDenied"

\* sort.Sort(completedParts(parts)): ascending by PartNumber (insertion sort)
RECURSIVE InsertSorted(_, _)
InsertSorted(x, s) ==
  IF s = <<>> THEN <<x>>
  ELSE IF x <= Head(s) THEN <<x>> \o s
  ELSE <<Head(s)>> \o InsertSorted(x, Tail(s))

RECURSIVE SortParts(_)
SortParts(s) == IF s = <<>> THEN <<>> ELSE InsertSorted(Head(s), SortParts(Tail(s)))


\* ---- collaborators (outcomes of the calls the engine makes) ----
\* uploadPart on a bounded view that can deliver avail bytes, declared size
\* arg, for part num: a failure (zero ObjectPart, error) or a success
\* carrying the part number and the number of bytes transferred.  A view
\* that is at end-of-data although bytes were requested yields io.EOF.
UploadPartOutcomes(num, avail, arg) ==
  {[objPart |-> ZeroObjectPart, err |-> Err(c, num)] : c \in FaultCodes}
  \cup (IF arg > 0 /\ avail = 0
        THEN {[objPart |-> ZeroObjectPart, err |-> Err("EOF", num)]}
        ELSE {[objPart |-> ObjectPart(num, Min(avail, arg)), err |-> NoErr]})

\* newUploadID, completeMultipartUpload, executeMethod: nil or a fault
CallOutcomes == {NoErr} \cup {Err(c, 0) : c \in FaultCodes}

\* every name passes validation
NeverInvalid(nm) == NoErr

\* s3utils.CheckValidBucketName, then s3utils.CheckValidObjectName
ValidationError(nm) ==
  IF nm = "badBucket" THEN Err("InvalidBucketName", 0)
  ELSE IF nm = "badObject" THEN Err("InvalidObjectName", 0)
  ELSE NoErr

VARIABLES
  \* arguments of the call and the environment
  op,            \* "stream": putObjectMultipartStream, "single": putObjectNoChecksum
  size,          \* declared size, -1 when unknown
  readAt,        \* the reader is an *Object, an io.ReaderAt or an *os.File
  srcLen,        \* number of bytes the source really holds
  progress,      \* progress != nil
  names,         \* "ok", "badBucket" or "badObject"
  isGoogle,      \* s3utils.IsGoogleEndpoint(c.endpointURL)
  client,        \* the Client value the caller holds and calls the method on
  c,             \* the receiver of the call: the copy the method works on
  \* the calling goroutine
  pc,
  n, err,                    \* n, err of putObjectMultipartStream (lines 58-61)
  retN, retErr,              \* what the called operation returned to its caller
  totalPartsCount, partSize, lastPartSize,
  totalUploadedSize,
  Parts,                     \* complMultipartUpload.Parts (part numbers)
  sharedErr,                 \* err of putObjectMultipartStreamFromReadAt, captured by the goroutines
  uploadPartsCh, uploadedPartsCh,
  u,                         \* collector loop counter (line 199)
  wk,                        \* the upload goroutines: position and locals
  partNumber, partsInfo,     \* sequential uploader (lines 267-271)
  srcPos,                    \* read position of the forward-only reader
  \* what the collaborators observed
  initCalls,                 \* number of newUploadID calls
  uploads,                   \* uploadPart calls: part number, offset, view length, declared size
  upCount,                   \* number of uploadPart calls per part number
  eofAt,                     \* sequential uploader: the part whose upload reported io.EOF (0: none)
  finalizeCalls,             \* lists handed to completeMultipartUpload
  putCalls,                  \* putObjectDo calls
  progressBytes,             \* bytes advanced on the progress reader
  received                   \* results the collector took from uploadedPartsCh, in order

args == <<op, size, readAt, srcLen, progress, names, isGoogle>>
inputs == <<args, client, c>>
planVars == <<totalPartsCount, lastPartSize>>
chans == <<uploadPartsCh, uploadedPartsCh>>
seqVars == <<partNumber, partsInfo, srcPos>>
logVars == <<initCalls, uploads, upCount, eofAt, finalizeCalls, putCalls, progressBytes>>
vars == <<op, size, readAt, srcLen, progress, names, isGoogle, client, c, pc, n, err, retN, retErr,
          totalPartsCount, partSize, lastPartSize, totalUploadedSize, Parts, sharedErr,
          uploadPartsCh, uploadedPartsCh, u, wk, partNumber, partsInfo, srcPos,
          initCalls, uploads, upCount, eofAt, finalizeCalls, putCalls, progressBytes,
          received>>

\* sources considered for a declared size: one byte short, exact, one byte long;
\* for an unknown size every length up to MaxData
SrcLens(sz) == IF sz < 0 THEN 0..MaxData ELSE {l \in {sz - 1, sz, sz + 1} : l >= 0}

IdleWorker == [pc |-> "idle", PartNum |-> 0, readOffset |-> 0, secLen |-> 0,
               argSize |-> 0, objPart |-> ZeroObjectPart]

\* signer types a caller's client is configured with
CallerSignerTypes == {"SignatureDefault", "SignatureV2"}

Init ==
  /\ op \in {"stream", "single"}
  /\ client \in {[overrideSignerType |-> t] : t \in CallerSignerTypes}
  /\ c = client
  /\ size \in -1..MaxSize
  /\ readAt \in BOOLEAN
  /\ srcLen \in SrcLens(size)
  /\ progress \in BOOLEAN
  /\ names \in {"ok", "badBucket", "badObject"}
  \* the endpoint class is read only under size < 0 (line 348)
  /\ isGoogle \in (IF size < 0 THEN BOOLEAN ELSE {FALSE})
  /\ pc = "start"
  /\ n = 0 /\ err = NoErr
  /\ retN = 0 /\ retErr = NoErr
  /\ totalPartsCount = 0 /\ partSize = 0 /\ lastPartSize = 0
  /\ totalUploadedSize = 0
  /\ Parts = <<>>
  /\ sharedErr = NoErr
  /\ uploadPartsCh = <<>> /\ uploadedPartsCh = <<>>
  /\ u = 1
  /\ wk = [w \in Workers |-> IdleWorker]
  /\ partNumber = 0 /\ partsInfo = <<>>
  /\ srcPos = 0
  /\ initCalls = 0
  /\ uploads = {}
  /\ upCount = [p \in PartNums |-> 0]
  /\ eofAt = 0
  /\ finalizeCalls = <<>>
  /\ putCalls = <<>>
  /\ progressBytes = 0
  /\ received = <<>>


collVars == <<totalUploadedSize, Parts, u, received>>
retVars == <<retN, retErr>>
workerVars == <<partSize, sharedErr, uploadPartsCh, uploadedPartsCh, wk>>

\* the caller's client as the method had a pointer receiver
PointerReceiver(caller, receiver) == receiver

\* line 46, func (c Client): the receiver is a copy, the caller's client
\* keeps its value whatever is assigned to the receiver's fields
ValueReceiver(caller, receiver) == caller

\* ---- putObjectMultipartStream: dispatch (lines 46-61) ----
Dispatch ==
  /\ pc = "start"
  /\ c' = IF op = "stream"
            THEN [c EXCEPT !.overrideSignerType = "SignatureV4Streaming"]
            ELSE c
  /\ client' = ValueReceiver(client, c')
  /\ pc' = IF op = "single" THEN "s_validate"
           ELSE IF readAt THEN "c_validate" ELSE "q_validate"
  /\ UNCHANGED <<args, n, err, retVars, planVars, collVars, workerVars, seqVars, logVars>>

\* a multipart uploader returns (nn, e) to putObjectMultipartStream
MultipartReturn(nn, e) ==
  /\ n' = nn
  /\ err' = e
  /\ pc' = "fallback"

\* ---- putObjectMultipartStreamFromReadAt (lines 102-239) ----
\* lines 105-110
CValidate ==
  /\ pc = "c_validate"
  /\ IF ValidationError(names) # NoErr
       THEN MultipartReturn(0, ValidationError(names))
       ELSE pc' = "c_init" /\ UNCHANGED <<n, err>>
  /\ UNCHANGED <<inputs, retVars, planVars, collVars, workerVars, seqVars, logVars>>

\* lines 113-116
CNewUploadID ==
  /\ pc = "c_init"
  /\ initCalls' = initCalls + 1
  /\ \E e \in CallOutcomes :
       /\ sharedErr' = e
       /\ IF e # NoErr
            THEN MultipartReturn(0, e)
            ELSE pc' = "c_plan" /\ UNCHANGED <<n, err>>
  /\ UNCHANGED <<inputs, retVars, planVars, collVars, partSize, uploadPartsCh,
                 uploadedPartsCh, wk, seqVars, uploads, upCount, eofAt, finalizeCalls,
                 putCalls, progressBytes>>

\* lines 125-128 and 141
COptimalPartInfo ==
  /\ pc = "c_plan"
  /\ IF PlanFails(size)
       THEN /\ sharedErr' = Err("EntityTooLarge", 0)
            /\ MultipartReturn(0, Err("EntityTooLarge", 0))
            /\ UNCHANGED <<planVars, partSize>>
       ELSE /\ totalPartsCount' = PlanTotalParts(size)
            /\ partSize' = PlanPartSize(size)
            /\ lastPartSize' = PlanLastPartSize(size)
            /\ sharedErr' = NoErr
            /\ pc' = "c_enqueue"
            /\ UNCHANGED <<n, err>>
  /\ UNCHANGED <<inputs, retVars, collVars, uploadPartsCh, uploadedPartsCh, wk,
                 seqVars, logVars>>

\* channels that hold one element less than the protocol's part count
OneSlotShort == MaxPartsCount - 1

\* lines 133 and 138: both channels are buffered to 10000, the maximum number
\* of parts (scaled with MaxPartsCount)
QueueCapacity == MaxPartsCount

\* lines 144-147: every part number is queued, then the channel is closed.
\* No goroutine receives yet: a send to the full channel blocks for ever.
CEnqueue ==
  /\ pc = "c_enqueue"
  /\ uploadPartsCh' = [p \in 1..Min(totalPartsCount, QueueCapacity) |-> p]
  /\ pc' = IF totalPartsCount <= QueueCapacity THEN "c_spawn" ELSE "c_blocked"
  /\ UNCHANGED <<inputs, n, err, retVars, planVars, collVars, partSize, sharedErr,
                 uploadedPartsCh, wk, seqVars, logVars>>

\* lines 150-195: the goroutines are started
CSpawn ==
  /\ pc = "c_spawn"
  /\ wk' = [w \in Workers |-> [wk[w] EXCEPT !.pc = "recv"]]
  /\ pc' = "c_collect"
  /\ UNCHANGED <<inputs, n, err, retVars, planVars, collVars, partSize, sharedErr,
                 uploadPartsCh, uploadedPartsCh, seqVars, logVars>>

\* ---- one upload goroutine (lines 151-194) ----
\* line 153: range over the closed channel
WRecv(w) ==
  /\ wk[w].pc = "recv"
  /\ IF uploadPartsCh = <<>>
       THEN /\ wk' = [wk EXCEPT ![w] = [IdleWorker EXCEPT !.pc = "done"]]
            /\ UNCHANGED uploadPartsCh
       ELSE /\ wk' = [wk EXCEPT ![w] = [IdleWorker EXCEPT !.pc = "off",
                                                          !.PartNum = Head(uploadPartsCh)]]
            /\ uploadPartsCh' = Tail(uploadPartsCh)
  /\ UNCHANGED <<inputs, pc, n, err, retVars, planVars, collVars, partSize, sharedErr,
                 uploadedPartsCh, seqVars, logVars>>

\* lines 158-165: the offset is computed from the captured partSize; the
\* goroutine that holds the last part overwrites the captured partSize
WOffset(w) ==
  /\ wk[w].pc = "off"
  /\ IF wk[w].PartNum = totalPartsCount
       THEN /\ wk' = [wk EXCEPT ![w].readOffset = size - lastPartSize, ![w].pc = "sect"]
            /\ partSize' = lastPartSize
       ELSE /\ wk' = [wk EXCEPT ![w].readOffset = (wk[w].PartNum - 1) * partSize,
                                ![w].pc = "sect"]
            /\ UNCHANGED partSize
  /\ UNCHANGED <<inputs, pc, n, err, retVars, planVars, collVars, sharedErr, chans,
                 seqVars, logVars>>

\* line 168: io.NewSectionReader(reader, readOffset, partSize)
WSection(w) ==
  /\ wk[w].pc = "sect"
  /\ wk' = [wk EXCEPT ![w].secLen = partSize, ![w].pc = "call"]
  /\ UNCHANGED <<inputs, pc, n, err, retVars, planVars, collVars, partSize, sharedErr,
                 chans, seqVars, logVars>>

\* lines 172-173: uploadPart is called with the captured partSize as size
WCall(w) ==
  /\ wk[w].pc = "call"
  /\ wk' = [wk EXCEPT ![w].argSize = partSize, ![w].pc = "inup"]
  /\ uploads' = uploads \cup {[num |-> wk[w].PartNum, off |-> wk[w].readOffset,
                               len |-> wk[w].secLen, size |-> partSize]}
  /\ upCount' = [upCount EXCEPT ![wk[w].PartNum] = @ + 1]
  /\ UNCHANGED <<inputs, pc, n, err, retVars, planVars, collVars, partSize, sharedErr,
                 chans, seqVars, initCalls, eofAt, finalizeCalls, putCalls,
                 progressBytes>>

\* line 172: uploadPart returns; objPart is local, err is the captured variable
WReturn(w) ==
  /\ wk[w].pc = "inup"
  /\ \E o \in UploadPartOutcomes(wk[w].PartNum,
                                 Avail(wk[w].secLen, wk[w].readOffset, srcLen),
                                 wk[w].argSize) :
       /\ wk' = [wk EXCEPT ![w].objPart = o.objPart, ![w].pc = "chk"]
       /\ sharedErr' = o.err
  /\ UNCHANGED <<inputs, pc, n, err, retVars, planVars, collVars, partSize, chans,
                 seqVars, logVars>>

\* line 174: if err != nil
WCheck(w) ==
  /\ wk[w].pc = "chk"
  /\ wk' = [wk EXCEPT ![w].pc = IF sharedErr # NoErr THEN "serr" ELSE "sok"]
  /\ UNCHANGED <<inputs, pc, n, err, retVars, planVars, collVars, partSize, sharedErr,
                 chans, seqVars, logVars>>

\* lines 175-180: the error result is built from the captured err, then the
\* goroutine exits
WSendErr(w) ==
  /\ wk[w].pc = "serr"
  /\ Len(uploadedPartsCh) < QueueCapacity
  /\ uploadedPartsCh' = Append(uploadedPartsCh,
        [Size |-> 0, Error |-> sharedErr, PartNum |-> 0, Part |-> NilPart])
  /\ wk' = [wk EXCEPT ![w] = [IdleWorker EXCEPT !.pc = "done"]]
  /\ UNCHANGED <<inputs, pc, n, err, retVars, planVars, collVars, partSize, sharedErr,
                 uploadPartsCh, seqVars, logVars>>

\* lines 184-192: the success result, then the next task
WSendOk(w) ==
  /\ wk[w].pc = "sok"
  /\ Len(uploadedPartsCh) < QueueCapacity
  /\ uploadedPartsCh' = Append(uploadedPartsCh,
        [Size |-> wk[w].objPart.Size, Error |-> NoErr, PartNum |-> wk[w].PartNum,
         Part |-> wk[w].objPart])
  /\ wk' = [wk EXCEPT ![w] = [IdleWorker EXCEPT !.pc = "recv"]]
  /\ UNCHANGED <<inputs, pc, n, err, retVars, planVars, collVars, partSize, sharedErr,
                 uploadPartsCh, seqVars, logVars>>


\* ---- the collector (lines 199-223) ----
\* io.CopyN(ioutil.Discard, progress, k): nil, or the progress reader's error
\* (no read is made for k = 0)
CopyNOutcomes(k) == IF k > 0 THEN {NoErr, Err("Progress", 0)} ELSE {NoErr}

\* an error return that drops the byte count
ZeroOnError(total) == 0

\* line 202: the byte count returned with the first error result
BytesReturnedOnError(total) == total

\* one iteration of the loop at line 199
CCollect ==
  /\ pc = "c_collect"
  /\ u <= totalPartsCount
  /\ uploadedPartsCh # <<>>
  /\ LET uploadRes == Head(uploadedPartsCh) IN
       /\ uploadedPartsCh' = Tail(uploadedPartsCh)
       /\ received' = Append(received, uploadRes)
       /\ IF uploadRes.Error # NoErr
            THEN \* lines 201-203
                 /\ MultipartReturn(BytesReturnedOnError(totalUploadedSize), uploadRes.Error)
                 /\ UNCHANGED <<totalUploadedSize, Parts, u, sharedErr, progressBytes>>
            ELSE IF uploadRes.Part.isNil
            THEN \* lines 207-209
                 /\ MultipartReturn(0, Err("InvalidArgument", 0))
                 /\ UNCHANGED <<totalUploadedSize, Parts, u, sharedErr, progressBytes>>
            ELSE /\ totalUploadedSize' = totalUploadedSize + uploadRes.Size
                 /\ IF progress
                      THEN \* lines 213-217: the captured err is assigned
                           \E e \in CopyNOutcomes(uploadRes.Size) :
                             /\ sharedErr' = e
                             /\ IF e # NoErr
                                  THEN /\ MultipartReturn(totalUploadedSize', e)
                                       /\ UNCHANGED <<Parts, u, progressBytes>>
                                  ELSE /\ progressBytes' = progressBytes + uploadRes.Size
                                       /\ Parts' = Append(Parts, uploadRes.Part.PartNumber)
                                       /\ u' = u + 1
                                       /\ UNCHANGED <<pc, n, err>>
                      ELSE /\ Parts' = Append(Parts, uploadRes.Part.PartNumber)
                           /\ u' = u + 1
                           /\ UNCHANGED <<pc, n, err, sharedErr, progressBytes>>
  /\ UNCHANGED <<inputs, retVars, planVars, partSize, uploadPartsCh, wk, seqVars,
                 initCalls, uploads, upCount, eofAt, finalizeCalls, putCalls>>

\* the comparison of lines 226 and 303 left out
NoMismatch(total, declared) == FALSE

\* every total taken for a mismatch
AlwaysMismatch(total, declared) == TRUE

\* lines 226-228 and 303
SizeMismatch(total, declared) == total # declared

CVerify ==
  /\ pc = "c_collect"
  /\ u > totalPartsCount
  /\ IF SizeMismatch(totalUploadedSize, size)
       THEN MultipartReturn(totalUploadedSize, Err("UnexpectedEOF", 0))
       ELSE pc' = "c_complete" /\ UNCHANGED <<n, err>>
  /\ UNCHANGED <<inputs, retVars, planVars, collVars, workerVars, seqVars, logVars>>

\* the list handed on in arrival order (the sort of line 231 left out)
ArrivalOrderForCompletion(parts) == parts

\* line 231
SortedForCompletion(parts) == SortParts(parts)

\* lines 231-238
CComplete ==
  /\ pc = "c_complete"
  /\ Parts' = SortedForCompletion(Parts)
  /\ finalizeCalls' = Append(finalizeCalls, Parts')
  /\ \E e \in CallOutcomes :
       /\ sharedErr' = e
       /\ MultipartReturn(totalUploadedSize, e)
  /\ UNCHANGED <<inputs, retVars, planVars, totalUploadedSize, u, received, partSize,
                 chans, wk, seqVars, initCalls, uploads, upCount, eofAt, putCalls, progressBytes>>


\* ---- putObjectMultipartStreamNoChecksum (lines 241-333) ----
\* lines 244-249
QValidate ==
  /\ pc = "q_validate"
  /\ IF ValidationError(names) # NoErr
       THEN MultipartReturn(0, ValidationError(names))
       ELSE pc' = "q_init" /\ UNCHANGED <<n, err>>
  /\ UNCHANGED <<inputs, retVars, planVars, collVars, workerVars, seqVars, logVars>>

\* lines 252-255
QNewUploadID ==
  /\ pc = "q_init"
  /\ initCalls' = initCalls + 1
  /\ \E e \in CallOutcomes :
       IF e # NoErr
         THEN MultipartReturn(0, e)
         ELSE pc' = "q_plan" /\ UNCHANGED <<n, err>>
  /\ UNCHANGED <<inputs, retVars, planVars, collVars, workerVars, seqVars, uploads,
                 upCount, eofAt, finalizeCalls, putCalls, progressBytes>>

\* lines 258-270
QOptimalPartInfo ==
  /\ pc = "q_plan"
  /\ IF PlanFails(size)
       THEN /\ MultipartReturn(0, Err("EntityTooLarge", 0))
            /\ UNCHANGED <<planVars, partSize, partNumber>>
       ELSE /\ totalPartsCount' = PlanTotalParts(size)
            /\ partSize' = PlanPartSize(size)
            /\ lastPartSize' = PlanLastPartSize(size)
            /\ partNumber' = 1
            /\ pc' = "q_upload"
            /\ UNCHANGED <<n, err>>
  /\ UNCHANGED <<inputs, retVars, collVars, sharedErr, chans, wk, partsInfo, srcPos,
                 logVars>>

\* end-of-data treated like any other error
NeverBreaks(e, declared) == FALSE

\* line 286: for unknown size, end-of-data ends the loop
BreaksLoop(e, declared) == e.code = "EOF" /\ declared < 0

\* line 298: the size added for an uploaded part
AddedSize(planned, objPart) == planned

\* lines 271-299: one iteration; the part is uploaded synchronously from a
\* length-bounded view of the forward-only reader, read through the progress hook
QUploadPart ==
  /\ pc = "q_upload"
  /\ partNumber <= totalPartsCount
  /\ LET ps == IF partNumber = totalPartsCount THEN lastPartSize ELSE partSize
         avail == Avail(ps, 0, srcLen - srcPos)
     IN
       /\ partSize' = ps
       /\ uploads' = uploads \cup {[num |-> partNumber, off |-> srcPos, len |-> ps,
                                    size |-> ps]}
       /\ upCount' = [upCount EXCEPT ![partNumber] = @ + 1]
       /\ \E o \in UploadPartOutcomes(partNumber, avail, ps) :
          \E consumed \in (IF o.err = NoErr THEN {avail} ELSE {0, avail}) :
            /\ srcPos' = srcPos + consumed
            /\ progressBytes' = IF progress THEN progressBytes + consumed ELSE progressBytes
            /\ eofAt' = IF o.err.code = "EOF" THEN partNumber ELSE eofAt
            /\ IF BreaksLoop(o.err, size)
                 THEN /\ pc' = "q_verify"
                      /\ UNCHANGED <<n, err, partsInfo, totalUploadedSize, partNumber>>
                 ELSE IF o.err # NoErr
                 THEN /\ MultipartReturn(totalUploadedSize, o.err)
                      /\ UNCHANGED <<partsInfo, totalUploadedSize, partNumber>>
                 ELSE /\ partsInfo' = (partNumber :> o.objPart) @@ partsInfo
                      /\ totalUploadedSize' = totalUploadedSize + AddedSize(ps, o.objPart)
                      /\ partNumber' = partNumber + 1
                      /\ pc' = IF partNumber' <= totalPartsCount THEN "q_upload"
                               ELSE "q_verify"
                      /\ UNCHANGED <<n, err>>
  /\ UNCHANGED <<inputs, retVars, planVars, Parts, u, received, sharedErr, chans, wk,
                 initCalls, finalizeCalls, putCalls>>

\* line 302: the declared sizes for which the total is verified
Verified(declared) == declared > 0

\* lines 302-306
QVerify ==
  /\ pc = "q_verify"
  /\ IF Verified(size) /\ SizeMismatch(totalUploadedSize, size)
       THEN MultipartReturn(totalUploadedSize, Err("UnexpectedEOF", 0))
       ELSE pc' = "q_complete" /\ UNCHANGED <<n, err>>
  /\ UNCHANGED <<inputs, retVars, planVars, collVars, workerVars, seqVars, logVars>>

\* lines 313-322: the parts 1..partNumber-1 taken from partsInfo
CollectedParts(k, info) == [i \in 1..(k - 1) |-> info[i].PartNumber]

\* lines 308-332
QComplete ==
  /\ pc = "q_complete"
  /\ IF \E i \in 1..(partNumber - 1) : i \notin DOMAIN partsInfo
       THEN /\ MultipartReturn(0, Err("InvalidArgument", 0))
            /\ UNCHANGED <<Parts, finalizeCalls>>
       ELSE /\ Parts' = SortedForCompletion(CollectedParts(partNumber, partsInfo))
            /\ finalizeCalls' = Append(finalizeCalls, Parts')
            /\ \E e \in CallOutcomes : MultipartReturn(totalUploadedSize, e)
  /\ UNCHANGED <<inputs, retVars, planVars, totalUploadedSize, u, received, workerVars,
                 seqVars, initCalls, uploads, upCount, eofAt, putCalls, progressBytes>>

\* ---- putObjectMultipartStream: fallback (lines 62-75) ----
\* the size ceiling of line 68 left out
NeverTooLarge(sz) == FALSE

\* line 68
TooLargeForSinglePut(sz) == sz > MaxSinglePutObjectSize

Fallback ==
  /\ pc = "fallback"
  /\ IF err # NoErr /\ IsMultipartUnsupported(err)
       THEN IF TooLargeForSinglePut(size)
              THEN /\ retN' = 0
                   /\ retErr' = Err("EntityTooLarge", 0)
                   /\ pc' = "returned"
              ELSE /\ pc' = "s_validate"
                   /\ UNCHANGED retVars
       ELSE /\ retN' = n
            /\ retErr' = err
            /\ pc' = "returned"
  /\ UNCHANGED <<inputs, n, err, planVars, collVars, workerVars, seqVars, logVars>>

\* ---- putObjectNoChecksum (lines 337-372) ----
\* lines 339-344
SValidate ==
  /\ pc = "s_validate"
  /\ IF ValidationError(names) # NoErr
       THEN /\ retN' = 0
            /\ retErr' = ValidationError(names)
            /\ pc' = "returned"
       ELSE /\ pc' = "s_size"
            /\ UNCHANGED retVars
  /\ UNCHANGED <<inputs, n, err, planVars, collVars, workerVars, seqVars, logVars>>

\* an unknown size accepted on every endpoint
NeverTooSmall(sz, google) == FALSE

\* line 348: size < 0 && !s3utils.IsGoogleEndpoint(c.endpointURL)
UnknownSizeRejected(sz, google) == sz < 0 /\ ~google

\* lines 348-350
SCheckSize ==
  /\ pc = "s_size"
  /\ IF UnknownSizeRejected(size, isGoogle)
       THEN /\ retN' = 0
            /\ retErr' = Err("EntityTooSmall", 0)
            /\ pc' = "returned"
       ELSE /\ pc' = "s_put"
            /\ UNCHANGED retVars
  /\ UNCHANGED <<inputs, n, err, planVars, collVars, workerVars, seqVars, logVars>>

\* lines 351-356: the reader is narrowed to [0, size)
Narrowed(sz, isReaderAt) == sz > 0 /\ isReaderAt

\* lines 351-371, with putObjectDo (lines 376-432): one PUT request whose
\* body is the (possibly narrowed) reader behind the progress hook;
\* putObjectDo reports objInfo.Size = size (line 428)
SPutObjectDo ==
  /\ pc = "s_put"
  /\ LET narrowed == Narrowed(size, readAt)
         readable == IF narrowed THEN Avail(size, 0, srcLen) ELSE srcLen - srcPos
         body == IF size >= 0 THEN Min(size, readable) ELSE readable
     IN
       /\ putCalls' = Append(putCalls, [size |-> size, narrowed |-> narrowed,
                                        readable |-> readable, pos |-> srcPos])
       /\ \E e \in CallOutcomes :
          \E consumed \in (IF e = NoErr THEN {body} ELSE {0, body}) :
            /\ srcPos' = srcPos + consumed
            /\ progressBytes' = IF progress THEN progressBytes + consumed ELSE progressBytes
            /\ IF e # NoErr
                 THEN retN' = 0 /\ retErr' = e
                 ELSE retN' = size /\ retErr' = NoErr
       /\ pc' = "returned"
  /\ UNCHANGED <<inputs, n, err, planVars, collVars, workerVars, partNumber, partsInfo,
                 initCalls, uploads, upCount, eofAt, finalizeCalls>>

Worker(w) ==
  \/ WRecv(w) \/ WOffset(w) \/ WSection(w) \/ WCall(w) \/ WReturn(w)
  \/ WCheck(w) \/ WSendErr(w) \/ WSendOk(w)

Caller ==
  \/ Dispatch
  \/ CValidate \/ CNewUploadID \/ COptimalPartInfo \/ CEnqueue \/ CSpawn
  \/ CCollect \/ CVerify \/ CComplete
  \/ QValidate \/ QNewUploadID \/ QOptimalPartInfo \/ QUploadPart \/ QVerify \/ QComplete
  \/ Fallback
  \/ SValidate \/ SCheckSize \/ SPutObjectDo

Next == Caller \/ \E w \in Workers : Worker(w)

Spec == Init /\ [][Next]_vars


\* ======================= properties =======================
ConcurrentPath == op = "stream" /\ readAt
SequentialPath == op = "stream" /\ ~readAt
\* the multipart uploader has returned to putObjectMultipartStream
MultipartReturned == pc \in {"fallback", "s_validate", "s_size", "s_put", "returned"}

\* the byte range the ChunkingPlan gives part p
PlannedOffset(p) ==
  IF p < PlanTotalParts(size) THEN (p - 1) * PlanPartSize(size)
  ELSE size - PlanLastPartSize(size)
PlannedLength(p) ==
  IF p < PlanTotalParts(size) THEN PlanPartSize(size) ELSE PlanLastPartSize(size)

\* C1: in the concurrent uploader every part is uploaded with the offset and
\* the length the ChunkingPlan gives it, whatever the other goroutines have
\* processed (the claim as stated; the captured partSize breaks it).
C1_PartRangesFollowPlan ==
  ConcurrentPath =>
    \A up \in uploads :
      /\ up.off = PlannedOffset(up.num)
      /\ up.len = PlannedLength(up.num)
      /\ up.size = PlannedLength(up.num)

\* part numbers the uploader holds a successful result for
UploadedParts ==
  IF readAt
    THEN {received[j].Part.PartNumber :
            j \in {i \in 1..Len(received) :
                     received[i].Error = NoErr /\ ~received[i].Part.isNil}}
    ELSE DOMAIN partsInfo

\* C2: every list handed to completeMultipartUpload is 1, 2, ..., k in this
\* order, k being the number of parts uploaded, whatever the arrival order.
C2_FinalizeListAscending ==
  op = "stream" =>
    \A i \in 1..Len(finalizeCalls) :
      LET l == finalizeCalls[i] IN
        /\ Len(l) = Cardinality(UploadedParts)
        /\ UploadedParts = 1..Len(l)
        /\ \A j \in 1..Len(l) : l[j] = j

\* C2 witness: the concurrent uploader finalizes after the result of a later
\* part arrived before the result of an earlier one.
C2_Witness ==
  /\ ConcurrentPath
  /\ Len(finalizeCalls) = 1
  /\ Len(received) >= 2
  /\ received[1].PartNum > received[2].PartNum


\* sum of the Size fields of a sequence of results
RECURSIVE SumSizes(_)
SumSizes(s) == IF s = <<>> THEN 0 ELSE Head(s).Size + SumSizes(Tail(s))

\* the collector loop of line 199 ran to its end
AllCollected == totalPartsCount > 0 /\ u > totalPartsCount

\* C3: once all totalPartsCount results are collected, the concurrent uploader
\* finalizes (and can return success) only if the sizes of the collected
\* results sum to size; otherwise it returns UnexpectedEOF and never finalizes.
C3_TotalVerifiedBeforeFinalize ==
  ConcurrentPath =>
    /\ finalizeCalls # <<>> => AllCollected /\ SumSizes(received) = size
    /\ (pc = "returned" /\ retErr = NoErr /\ putCalls = <<>>) =>
         Len(finalizeCalls) = 1 /\ SumSizes(received) = size
    /\ (AllCollected /\ MultipartReturned) =>
         IF SumSizes(received) = size
           THEN Len(finalizeCalls) = 1
           ELSE /\ err = Err("UnexpectedEOF", 0)
                /\ n = SumSizes(received)
                /\ finalizeCalls = <<>>

\* C3 witness: all results collected, their sizes do not sum to size, and the
\* uploader has returned UnexpectedEOF.
C3_Witness ==
  /\ ConcurrentPath /\ AllCollected /\ MultipartReturned
  /\ SumSizes(received) # size
  /\ err = Err("UnexpectedEOF", 0)

\* C4: when the concurrent uploader has returned, no goroutine is inside
\* uploadPart and none can start an upload any more (the claim as stated; the
\* collector returns without waiting for the goroutines).
C4_WorkersDoneAtReturn ==
  (ConcurrentPath /\ MultipartReturned) =>
    \A w \in Workers :
      /\ wk[w].pc \notin {"off", "sect", "call", "inup"}
      /\ uploadPartsCh # <<>> => wk[w].pc \in {"idle", "done", "serr"}

\* C5: the collector takes at most totalPartsCount results and returns either
\* on an error result or after exactly totalPartsCount success results (the
\* claim as stated, for runs whose progress reader does not fail).
C5_ErrorOrAllResults ==
  (ConcurrentPath /\ MultipartReturned /\ totalPartsCount > 0 /\ err.code # "Progress") =>
    /\ Len(received) <= totalPartsCount
    /\ \/ /\ received # <<>>
          /\ received[Len(received)].Error # NoErr
       \/ /\ Len(received) = totalPartsCount
          /\ \A j \in 1..Len(received) :
               received[j].Error = NoErr /\ ~received[j].Part.isNil

\* C6: the first result with a non-nil error makes the concurrent uploader
\* return that error with the sizes of the results received before it summed
\* up; no finalize call is made and no part is uploaded twice.
C6_FirstErrorReturned ==
  (ConcurrentPath /\ received # <<>> /\ received[Len(received)].Error # NoErr) =>
    /\ \A j \in 1..(Len(received) - 1) : received[j].Error = NoErr
    /\ MultipartReturned
    /\ err = received[Len(received)].Error
    /\ n = SumSizes(SubSeq(received, 1, Len(received) - 1))
    /\ finalizeCalls = <<>>
    /\ \A p \in PartNums : upCount[p] <= 1

\* C6 witness: an error result arrives after a success result that carried bytes.
C6_Witness ==
  /\ ConcurrentPath /\ Len(received) = 2
  /\ received[2].Error # NoErr
  /\ received[1].Size > 0
  /\ pc = "returned"

\* C7: with unknown size, end-of-data at part k ends the sequential loop: no
\* later part is uploaded, the end-of-data is not returned, finalize gets
\* exactly the parts 1..k-1, and the call succeeds when finalize does.
C7_EofEndsUnknownSizeLoop ==
  (SequentialPath /\ size < 0 /\ eofAt > 0) =>
    /\ partNumber = eofAt /\ pc # "q_upload"
    /\ \A p \in PartNums : p > eofAt => upCount[p] = 0
    /\ err.code # "EOF"
    /\ MultipartReturned =>
         /\ Len(finalizeCalls) = 1
         /\ Len(finalizeCalls[1]) = eofAt - 1
         /\ Len(finalizeCalls[1]) < totalPartsCount
         /\ \A j \in 1..(eofAt - 1) : finalizeCalls[1][j] = j
         /\ DOMAIN partsInfo = 1..(eofAt - 1)
    /\ (pc = "returned" /\ err = NoErr) => retErr = NoErr /\ retN = totalUploadedSize

\* C7 witness: end-of-data at part 2, finalize succeeded, the call returned nil.
C7_Witness ==
  /\ SequentialPath /\ size < 0 /\ eofAt = 2
  /\ pc = "returned" /\ retErr = NoErr
  /\ finalizeCalls = << <<1>> >>

RECURSIVE ReportedUpTo(_)
ReportedUpTo(k) == IF k = 0 THEN 0 ELSE partsInfo[k].Size + ReportedUpTo(k - 1)
\* bytes the part-upload collaborator reported over all parts
ReportedTotal == ReportedUpTo(partNumber - 1)

\* C8: with a known size, the sequential uploader fails with UnexpectedEOF and
\* never finalizes when the sizes reported for the uploaded parts do not sum to
\* the declared size (the claim as stated; line 298 adds partSize instead).
C8_ReportedTotalVerified ==
  (SequentialPath /\ size >= 0 /\ MultipartReturned /\ totalPartsCount > 0
     /\ partNumber > totalPartsCount /\ ReportedTotal # size) =>
    /\ err = Err("UnexpectedEOF", 0)
    /\ finalizeCalls = <<>>

\* session initiation was rejected as "multipart unsupported"
InitiationRejected ==
  /\ op = "stream" /\ MultipartReturned
  /\ initCalls = 1 /\ totalPartsCount = 0
  /\ err = Err("AccessDenied", 0)

\* the PUT request a direct putObjectNoChecksum call makes for the arguments
ExpectedPut ==
  [size |-> size,
   narrowed |-> (readAt /\ size > 0),
   readable |-> IF readAt /\ size > 0 THEN Min(size, srcLen) ELSE srcLen,
   pos |-> 0]

\* C9: initiation rejected as unsupported and 0 <= size <= ceiling: exactly one
\* PUT with the same size and the untouched reader, the request a direct
\* single-shot call makes, and (size, nil) when the PUT succeeds.
C9_FallbackEqualsSingleShot ==
  /\ (InitiationRejected /\ size >= 0 /\ size <= MaxSinglePutObjectSize
        /\ pc = "returned") =>
       /\ putCalls = <<ExpectedPut>>
       /\ retErr.code \in {"nil"} \cup FaultCodes
       /\ retErr = NoErr => retN = size
  /\ (op = "single" /\ names = "ok" /\ size >= 0 /\ pc = "returned") =>
       /\ putCalls = <<ExpectedPut>>
       /\ retErr = NoErr => retN = size

\* C9 witness: the fallback PUT succeeded after a rejected initiation.
C9_Witness ==
  /\ InitiationRejected /\ size > 0 /\ size <= MaxSinglePutObjectSize
  /\ pc = "returned" /\ retErr = NoErr /\ retN = size
  /\ Len(putCalls) = 1

\* C10: a multipart failure classified as unsupported with size above the
\* single-shot ceiling returns (0, EntityTooLarge) and issues no PUT.
C10_TooLargeForFallback ==
  (op = "stream" /\ MultipartReturned /\ err.code = "AccessDenied"
     /\ size > MaxSinglePutObjectSize) =>
    /\ putCalls = <<>>
    /\ pc \in {"fallback", "returned"}
    /\ pc = "returned" => retN = 0 /\ retErr = Err("EntityTooLarge", 0)

\* C10 witness: a part upload was rejected as unsupported for a size above the
\* ceiling and the call has returned.
C10_Witness ==
  /\ op = "stream" /\ pc = "returned"
  /\ err.code = "AccessDenied" /\ err.origin > 0
  /\ size > MaxSinglePutObjectSize
  /\ retErr = Err("EntityTooLarge", 0)

\* the multipart attempt failed at a stage whose "multipart unsupported" error
\* may be answered by the single-shot fallback: session initiation, or the
\* upload of the first part
FailedEarlyUnsupported ==
  /\ err.code = "AccessDenied"
  /\ \/ err.origin = 1
     \/ err.origin = 0 /\ totalPartsCount = 0 /\ finalizeCalls = <<>>

\* C11: a single-shot request is issued only after the multipart attempt failed
\* at initiation or at the first part with the classified error; after any
\* other failure the multipart error and byte count are returned unchanged and
\* no single-shot request is issued (the claim as stated; line 66 classifies
\* the error of every stage).
C11_FallbackOnlyForEarlyUnsupported ==
  (op = "stream" /\ MultipartReturned /\ err # NoErr /\ ~FailedEarlyUnsupported) =>
    /\ putCalls = <<>>
    /\ pc \in {"fallback", "returned"}
    /\ pc = "returned" => retN = n /\ retErr = err

\* C12: a bucket or object name that fails validation makes the operation
\* return (0, the validation error), and no collaborator call (newUploadID,
\* uploadPart, completeMultipartUpload, putObjectDo) is ever made.
C12_ValidationBeforeNetwork ==
  names # "ok" =>
    /\ initCalls = 0 /\ uploads = {} /\ finalizeCalls = <<>> /\ putCalls = <<>>
    /\ \A p \in PartNums : upCount[p] = 0
    /\ pc \notin {"c_init", "c_plan", "c_enqueue", "c_spawn", "c_collect", "c_complete",
                  "q_init", "q_plan", "q_upload", "q_verify", "q_complete",
                  "s_size", "s_put"}
    /\ (op = "stream" /\ MultipartReturned) =>
         n = 0 /\ err = ValidationError(names) /\ err # NoErr
    /\ pc = "returned" =>
         retN = 0 /\ retErr = ValidationError(names) /\ retErr # NoErr

\* C12 witness: the concurrent uploader was entered with an invalid object name
\* and the call has returned.
C12_Witness ==
  /\ ConcurrentPath /\ names = "badObject"
  /\ pc = "returned" /\ retErr = Err("InvalidObjectName", 0)

\* C13: every list handed to completeMultipartUpload is non-empty (the claim
\* as stated; end-of-data at part 1 of an unknown-size source finalizes the
\* empty list).
C13_FinalizeListNonEmpty ==
  op = "stream" => \A i \in 1..Len(finalizeCalls) : finalizeCalls[i] # <<>>

\* C14: for every known size (0 included) and a source that supports range
\* reads, the reader handed to putObjectDo is narrowed to [0, size), so no byte
\* at or beyond offset size can be read (the claim as stated; line 352 narrows
\* only under size > 0).
C14_KnownSizeNarrowed ==
  \A i \in 1..Len(putCalls) :
    (putCalls[i].size >= 0 /\ readAt) =>
      /\ putCalls[i].narrowed
      /\ putCalls[i].readable <= putCalls[i].size

\* putObjectNoChecksum was entered and got past its name checks
SingleShotEntered ==
  /\ names = "ok"
  /\ \/ op = "single" /\ pc # "start"
     \/ op = "stream" /\ pc \in {"s_size", "s_put"}
     \/ op = "stream" /\ pc = "returned" /\ err.code = "AccessDenied"
          /\ ~TooLargeForSinglePut(size)

\* C15: with size < 0 the single-shot uploader returns (0, EntityTooSmall) and
\* issues no PUT when the endpoint does not take unknown-length uploads; when
\* it does, the PUT is issued and EntityTooSmall is not returned.
C15_UnknownSizeNeedsCapableEndpoint ==
  (SingleShotEntered /\ size < 0) =>
    /\ ~isGoogle =>
         /\ putCalls = <<>>
         /\ pc # "s_put"
         /\ pc = "returned" => retN = 0 /\ retErr = Err("EntityTooSmall", 0)
    /\ isGoogle =>
         /\ retErr.code # "EntityTooSmall"
         /\ pc = "returned" => Len(putCalls) = 1 /\ putCalls[1].size = size

\* C15 witness: a direct single-shot call with unknown size on an endpoint
\* without the capability has returned EntityTooSmall.
C15_Witness ==
  /\ op = "single" /\ names = "ok" /\ size < 0 /\ ~isGoogle
  /\ pc = "returned" /\ retErr = Err("EntityTooSmall", 0) /\ putCalls = <<>>

\* the upload of the one empty part of a zero-size object
EmptyPartUpload == [num |-> 1, off |-> 0, len |-> 0, size |-> 0]

\* C16: for size = 0 planned as one part of size 0, either uploader uploads
\* exactly part 1 with offset 0 and length 0, fails only with an error of a
\* collaborator, otherwise hands finalize the list of that one part, and
\* returns (0, nil) when finalize succeeds.
C16_EmptyObjectOnePart ==
  (op = "stream" /\ size = 0 /\ totalPartsCount = 1 /\ lastPartSize = 0) =>
    /\ uploads \subseteq {EmptyPartUpload}
    /\ upCount[1] <= 1 /\ \A p \in PartNums : p > 1 => upCount[p] = 0
    /\ \A i \in 1..Len(finalizeCalls) : finalizeCalls[i] = <<1>>
    /\ Len(finalizeCalls) <= 1
    /\ (MultipartReturned /\ err.code \notin FaultCodes) =>
         /\ err = NoErr /\ n = 0
         /\ uploads = {EmptyPartUpload} /\ upCount[1] = 1
         /\ finalizeCalls = << <<1>> >>
    /\ (pc = "returned" /\ err = NoErr) => retN = 0 /\ retErr = NoErr

\* C16 witness: the concurrent uploader has stored an empty object.
C16_Witness ==
  /\ ConcurrentPath /\ size = 0 /\ totalPartsCount = 1 /\ lastPartSize = 0
  /\ pc = "returned" /\ retN = 0 /\ retErr = NoErr
  /\ finalizeCalls = << <<1>> >> /\ uploads = {EmptyPartUpload}

\* every result posted so far, taken by the collector or still queued
PostedResults == received \o uploadedPartsCh

\* goroutines that hold a dequeued task whose result is not posted yet
BusyWorkers == {w \in Workers : wk[w].pc \in {"off", "sect", "call", "inup", "chk", "serr", "sok"}}

\* C17: every dequeued task yields exactly one result, and the result carries
\* a non-nil error exactly when the task's own uploadPart call failed (the
\* claim as stated; the goroutines and the collector share one err variable).
\* A failed call leaves the goroutine's objPart at its zero value.
C17_ResultMatchesOwnUpload ==
  (ConcurrentPath /\ \E w \in Workers : wk[w].pc # "idle") =>
    /\ Len(PostedResults) + Cardinality(BusyWorkers) = totalPartsCount - Len(uploadPartsCh)
    /\ \A w \in Workers :
         /\ wk[w].pc = "serr" => wk[w].objPart = ZeroObjectPart
         /\ wk[w].pc = "sok" => wk[w].objPart # ZeroObjectPart
    /\ \A i \in 1..Len(PostedResults) :
         PostedResults[i].Error = NoErr =>
           /\ ~PostedResults[i].Part.isNil
           /\ PostedResults[i].Part # ZeroObjectPart

C19_QueuesNeverFull ==
  ConcurrentPath =>
    /\ Len(uploadPartsCh) <= QueueCapacity
    /\ Len(uploadedPartsCh) <= QueueCapacity
    /\ pc # "c_blocked"
    /\ pc \in {"start", "c_validate", "c_init", "c_plan", "c_enqueue", "c_spawn"} =>
         \A w \in Workers : wk[w].pc = "idle"
    /\ pc = "c_spawn" => uploadPartsCh = [p \in 1..totalPartsCount |-> p]
    /\ \A w \in Workers :
         wk[w].pc \in {"serr", "sok"} => Len(uploadedPartsCh) < QueueCapacity

\* C19 witness: a goroutine posts a result while results are queued, and the
\* task channel was filled to its capacity.
C19_Witness ==
  /\ ConcurrentPath /\ totalPartsCount = QueueCapacity
  /\ uploadedPartsCh # <<>>
  /\ \E w \in Workers : wk[w].pc \in {"serr", "sok"}

\* C20: with a known size and a progress reader supplied, a successful return
\* of putObjectMultipartStream has advanced the progress reader by exactly
\* size bytes, on either uploader and after the fallback (the claim as stated;
\* the bytes counted during the failed multipart attempt stay counted, and the
\* sequential uploader counts what was read, not what was declared).
C20_ProgressEqualsSize ==
  (op = "stream" /\ size >= 0 /\ progress /\ pc = "returned" /\ retErr = NoErr) =>
    progressBytes = size

====
